---- MODULE Spec2Model ----
(***************************************************************************)
(* TextbookSaver (src/textbook_app.py): the account store, the daily       *)
(* search quota (User.can_search / User.increment_search), the search      *)
(* handler, the price aggregator (BookPriceFinder.search_all), the         *)
(* payment-success redirect and the Stripe webhook.                        *)
(*                                                                         *)
(* Time is counted in ticks, TicksPerDay ticks to a calendar day; the      *)
(* clock (datetime.utcnow) is the variable now.  A handler reads the clock *)
(* once per step; the search handler is two steps, split at its one        *)
(* blocking call (the eBay request inside search_all), so that the clock   *)
(* can advance between the quota check and the increment.                  *)
(*                                                                         *)
(* Prices are whole cents.  An offer's url, condition, shipping and image  *)
(* fields take no part in ordering or savings and are left out.            *)
(***************************************************************************)
EXTENDS Integers, Sequences, FiniteSets

\* ---------------------------------------------------------------- bounds
\* Ticks in one calendar day (two instants of a day can be told apart).
TicksPerDay == 2
\* The clock visits days 0..ExtraDays and PremiumDays..PremiumDays+ExtraDays.
ExtraDays == 1
\* The eBay client returns at most MaxItems offers (the code keeps at most 5).
MaxItems == 3
\* eBay prices range over 0..MaxPrice cents.
MaxPrice == 3
\* Requests that can be in flight at once.
NumWorkers == 2

\* ------------------------------------------------------ program constants
\* Free users limited to 5 searches per day.
FreeLimit == 5
\* timedelta(days=30)
PremiumDays == 30

Emails == {"a@x.org", "b@x.org"}
\* The account whose session sends the requests.
Clients == {"a@x.org"}
\* Request workers 1..NumWorkers; requests handled one at a time use worker 1.
Procs == 1..NumWorkers
Queries == {"", "  ", "calculus"}
Isbns == {"", "978"}
Deleted == "customer.subscription.deleted"
EventTypes == {Deleted, "invoice.paid"}
\* The email a webhook event carries: an address, or no such field at all.
NoField == "<no customer_email>"
EventEmails == Emails \cup {"nobody@x.org", NoField}

Days == (0..ExtraDays) \cup (PremiumDays..(PremiumDays + ExtraDays))
ClockInstants == {d * TicksPerDay + k : d \in Days, k \in 0..(TicksPerDay - 1)}

VARIABLES
    now,           \* datetime.utcnow()
    users,         \* the user table: email -> row
    req,           \* per worker: the search request it is handling
    resp,          \* the last response sent
    charged,       \* history: per account, searches charged since the last reset,
                   \*          counted up to FreeLimit + 1
    overlap,       \* history: per account, requests overlapped since the last reset
    ebay_results,  \* aggregator: what search_ebay returned
    results,       \* aggregator: what search_all returned
    savings,       \* aggregator: the handler's savings figure
    agg_pc         \* aggregator: "start", "searched", "computed"

vars == <<now, users, req, resp, charged, overlap, ebay_results, results, savings, agg_pc>>
appVars == <<now, users, req, resp, charged, overlap>>
aggVars == <<ebay_results, results, savings, agg_pc>>

\* ------------------------------------------------------------------ time
date(t) == t \div TicksPerDay

\* ------------------------------------------------------------- aggregator
\* item: which listing of the eBay response the offer was parsed from (0: none).
EbayOffer(p, i) ==
    [source |-> "eBay", price |-> p, title |-> "listing", item |-> i, is_search_link |-> FALSE]

\* Every list search_ebay can return: up to MaxItems offers, the i-th listing
\* as item i, each with a parsed price (a parsed price may be 0).
EbayResults ==
    UNION {{[i \in 1..n |-> EbayOffer(f[i], i)] : f \in [1..n -> 0..MaxPrice]} : n \in 0..MaxItems}

search_amazon(query, isbn) ==
    <<[source |-> "Amazon", price |-> 0, title |-> query, item |-> 0, is_search_link |-> TRUE]>>

\* list.sort(key=price) is stable: x goes after every element whose price is <= its own.
RECURSIVE InsertByPrice(_, _)
InsertByPrice(x, s) ==
    IF s = <<>> THEN <<x>>
    ELSE IF s[Len(s)].price <= x.price THEN Append(s, x)
    ELSE Append(InsertByPrice(x, SubSeq(s, 1, Len(s) - 1)), s[Len(s)])

RECURSIVE SortByPrice(_)
SortByPrice(s) ==
    IF s = <<>> THEN <<>>
    ELSE InsertByPrice(s[Len(s)], SortByPrice(SubSeq(s, 1, Len(s) - 1)))

IsPriced(r) == r.price > 0
IsLink(r) == r.is_search_link

all_results(ebay, query, isbn) == ebay \o search_amazon(query, isbn)

search_all_sort_everything(ebay, query, isbn) ==
    SortByPrice(all_results(ebay, query, isbn))

search_all(ebay, query, isbn) ==
    LET all == all_results(ebay, query, isbn)
        priced_results == SelectSeq(all, IsPriced)
        search_links == SelectSeq(all, IsLink)
    IN SortByPrice(priced_results) \o search_links

SeqMin(s) == CHOOSE x \in {s[i].price : i \in 1..Len(s)} : \A j \in 1..Len(s) : x <= s[j].price
SeqMax(s) == CHOOSE x \in {s[i].price : i \in 1..Len(s)} : \A j \in 1..Len(s) : x >= s[j].price

calc_savings_unfiltered_min(res) ==
    IF Len(res) > 1
    THEN LET priced == SelectSeq(res, IsPriced)
         IN IF priced # <<>> THEN SeqMax(priced) - SeqMin(res) ELSE 0
    ELSE 0

calc_savings(res) ==
    IF Len(res) > 1
    THEN LET priced == SelectSeq(res, IsPriced)
         IN IF priced # <<>> THEN SeqMax(priced) - SeqMin(priced) ELSE 0
    ELSE 0

\* The savings figures a search can report.
SavingsOutcomes == {calc_savings(search_all(e, "calculus", "")) : e \in EbayResults}

\* ---------------------------------------------------------------- accounts
\* premium_expires is <<>> for None and <<t>> for a timestamp.
NewUser(t) ==
    [is_premium |-> FALSE, premium_expires |-> <<>>, searches_today |-> 0,
     last_search_reset |-> t]

\* self.is_premium and self.premium_expires > datetime.utcnow()
ActivePremium(u, t) == u.is_premium /\ u.premium_expires[1] > t

\* can_search with the premium test on the flag alone (the expiry forgotten).
can_search_ignores_expiry(u, t) ==
    LET reset == date(u.last_search_reset) < date(t)
        u1 == IF reset
              THEN [u EXCEPT !.searches_today = 0, !.last_search_reset = t]
              ELSE u
    IN [user |-> u1,
        reset |-> reset,
        ok |-> IF u1.is_premium THEN TRUE ELSE u1.searches_today < FreeLimit]

\* can_search with the premium test first: a premium account returns before
\* the day's reset is looked at.
can_search_premium_first(u, t) ==
    LET reset == ~ActivePremium(u, t) /\ date(u.last_search_reset) < date(t)
        u1 == IF reset
              THEN [u EXCEPT !.searches_today = 0, !.last_search_reset = t]
              ELSE u
    IN [user |-> u1,
        reset |-> reset,
        ok |-> IF ActivePremium(u1, t) THEN TRUE ELSE u1.searches_today < FreeLimit]

\* can_search with the limit off by one (<= instead of <).
can_search_off_by_one(u, t) ==
    LET reset == date(u.last_search_reset) < date(t)
        u1 == IF reset
              THEN [u EXCEPT !.searches_today = 0, !.last_search_reset = t]
              ELSE u
    IN [user |-> u1,
        reset |-> reset,
        ok |-> IF ActivePremium(u1, t) THEN TRUE ELSE u1.searches_today <= FreeLimit]

\* can_search: the row after the call, whether it committed a reset, and the
\* value returned.
can_search(u, t) ==
    LET reset == date(u.last_search_reset) < date(t)
        u1 == IF reset
              THEN [u EXCEPT !.searches_today = 0, !.last_search_reset = t]
              ELSE u
    IN [user |-> u1,
        reset |-> reset,
        ok |-> IF ActivePremium(u1, t) THEN TRUE ELSE u1.searches_today < FreeLimit]

\* increment_search without the premium test: every search is charged.
increment_search_always(u, t) ==
    [user |-> [u EXCEPT !.searches_today = u.searches_today + 1], committed |-> TRUE]

\* increment_search: the row after the call and whether it committed.
increment_search(u, t) ==
    IF ~ActivePremium(u, t)
    THEN [user |-> [u EXCEPT !.searches_today = u.searches_today + 1], committed |-> TRUE]
    ELSE [user |-> u, committed |-> FALSE]

Unlimited == <<"unlimited">>
Count(n) == <<"count", n>>
Max0(n) == IF n > 0 THEN n ELSE 0

\* max(0, 5 - searches_today) if not is_premium else 'unlimited'
searches_remaining(u) ==
    IF ~u.is_premium THEN Count(Max0(FreeLimit - u.searches_today)) ELSE Unlimited

Strip(s) == IF s = "  " THEN "" ELSE s

\* What an idle worker holds in place of a row.
NoRow == NewUser(0)
IdleReq == [pc |-> "idle", user |-> "", row |-> NoRow]
\* A response: the handler that sent it, its HTTP status and, for a search,
\* the savings and searches_remaining fields of its JSON body.
Response(h, st, sv, rem) ==
    [handler |-> h, status |-> st, savings |-> sv, remaining |-> rem]
NoCount == <<"none">>

Registered == DOMAIN users
Quiet == \A p \in Procs : req[p].pc = "idle"
InFlight(u) == {p \in Procs : req[p].pc # "idle" /\ req[p].user = u}

\* ------------------------------------------------------------------- Init
AggIdle ==
    /\ ebay_results = <<>>
    /\ results = <<>>
    /\ savings = 0
    /\ agg_pc = "start"

AppInit ==
    /\ now = 0
    /\ users = [e \in {} |-> NoRow]
    /\ req = [p \in Procs |-> IdleReq]
    /\ resp = Response("none", 0, 0, NoCount)
    /\ charged = [e \in Emails |-> 0]
    /\ overlap = [e \in Emails |-> FALSE]

Init == AppInit /\ AggIdle

\* ---------------------------------------------------------------- actions
\* The clock moves forward to a later instant.
Tick ==
    /\ \E t \in ClockInstants : t > now /\ now' = t
    /\ UNCHANGED <<users, req, resp, charged, overlap>>
    /\ UNCHANGED aggVars

\* POST /signup
signup(email) ==
    /\ IF email \in Registered
       THEN /\ resp' = Response("signup", 400, 0, NoCount)
            /\ UNCHANGED users
       ELSE /\ users' = [e \in Registered \cup {email} |->
                            IF e = email THEN NewUser(now) ELSE users[e]]
            /\ resp' = Response("signup", 200, 0, NoCount)
    /\ UNCHANGED <<now, req, charged, overlap>>
    /\ UNCHANGED aggVars

\* POST /search, up to the eBay request: the session's user row is loaded,
\* can_search is called (a reset is committed at once), the input is checked.
search_begin(p, email, query, isbn) ==
    /\ req[p].pc = "idle"
    /\ email \in Registered
    /\ LET cs == can_search(users[email], now)
           others == InFlight(email) # {}
       IN /\ users' = IF cs.reset
                      THEN [users EXCEPT ![email].searches_today = 0,
                                         ![email].last_search_reset = now]
                      ELSE users
          /\ charged' = IF cs.reset THEN [charged EXCEPT ![email] = 0] ELSE charged
          /\ overlap' = [overlap EXCEPT ![email] = IF cs.reset THEN others ELSE @ \/ others]
          /\ IF ~cs.ok
             THEN /\ resp' = Response("search", 403, 0, NoCount)
                  /\ UNCHANGED req
             ELSE IF Strip(query) = "" /\ Strip(isbn) = ""
             THEN /\ resp' = Response("search", 400, 0, NoCount)
                  /\ UNCHANGED req
             ELSE /\ req' = [req EXCEPT ![p] = [pc |-> "aggregating", user |-> email,
                                               row |-> cs.user]]
                  /\ UNCHANGED resp
    /\ UNCHANGED now
    /\ UNCHANGED aggVars

\* POST /search, from the eBay response on: search_all returns, increment_search
\* works on the row this request holds and commits searches_today, the savings
\* and the remaining quota are computed from the row as it is after that.
search_finish(p) ==
    /\ req[p].pc = "aggregating"
    /\ LET email == req[p].user
           inc == increment_search(req[p].row, now)
       IN /\ users' = IF inc.committed
                      THEN [users EXCEPT ![email].searches_today = inc.user.searches_today]
                      ELSE users
          /\ charged' = IF inc.committed /\ charged[email] <= FreeLimit
                        THEN [charged EXCEPT ![email] = @ + 1]
                        ELSE charged
          /\ \E sv \in SavingsOutcomes :
                resp' = Response("search", 200, sv,
                                 searches_remaining(IF inc.committed THEN users'[email]
                                                    ELSE inc.user))
    /\ req' = [req EXCEPT ![p] = IdleReq]
    /\ UNCHANGED <<now, overlap>>
    /\ UNCHANGED aggVars

\* GET /payment-success
payment_success(email) ==
    /\ email \in Registered
    /\ users' = [users EXCEPT ![email].is_premium = TRUE,
                              ![email].premium_expires = <<now + PremiumDays * TicksPerDay>>]
    /\ resp' = Response("payment_success", 200, 0, NoCount)
    /\ UNCHANGED <<now, req, charged, overlap>>
    /\ UNCHANGED aggVars

\* The webhook without the signature check: an event is acted on whatever
\* its signature.
stripe_webhook_unverified(sig_ok, payload_ok, type, email) ==
    /\ IF ~payload_ok
       THEN /\ resp' = Response("webhook", 400, 0, NoCount)
            /\ UNCHANGED users
       ELSE IF type = Deleted
       THEN IF email = NoField
            THEN /\ resp' = Response("webhook", 500, 0, NoCount)
                 /\ UNCHANGED users
            ELSE /\ users' = IF email \in Registered
                             THEN [users EXCEPT ![email].is_premium = FALSE]
                             ELSE users
                 /\ resp' = Response("webhook", 200, 0, NoCount)
       ELSE /\ resp' = Response("webhook", 200, 0, NoCount)
            /\ UNCHANGED users
    /\ UNCHANGED <<now, req, charged, overlap>>
    /\ UNCHANGED aggVars

\* POST /webhook
stripe_webhook(sig_ok, payload_ok, type, email) ==
    /\ IF ~payload_ok \/ ~sig_ok
       THEN /\ resp' = Response("webhook", 400, 0, NoCount)
            /\ UNCHANGED users
       ELSE IF type = Deleted
       THEN IF email = NoField
            THEN /\ resp' = Response("webhook", 500, 0, NoCount)
                 /\ UNCHANGED users
            ELSE /\ users' = IF email \in Registered
                             THEN [users EXCEPT ![email].is_premium = FALSE]
                             ELSE users
                 /\ resp' = Response("webhook", 200, 0, NoCount)
       ELSE /\ resp' = Response("webhook", 200, 0, NoCount)
            /\ UNCHANGED users
    /\ UNCHANGED <<now, req, charged, overlap>>
    /\ UNCHANGED aggVars

\* ------------------------------------------------- requests one at a time
\* One browser session (Clients) drives the site; no request starts while
\* another is being handled.  The clock alone moves during a search.
Signup == Quiet /\ \E e \in Clients : signup(e)
SearchBegin == Quiet /\ \E e \in Clients, q \in Queries, i \in Isbns : search_begin(1, e, q, i)
SearchFinish == search_finish(1)
PaymentSuccess == Quiet /\ \E e \in Clients : payment_success(e)
Webhook == Quiet /\ \E s \in BOOLEAN, ok \in BOOLEAN, t \in EventTypes, e \in EventEmails :
                        stripe_webhook(s, ok, t, e)

Next == Tick \/ Signup \/ SearchBegin \/ SearchFinish \/ PaymentSuccess \/ Webhook

Spec == Init /\ [][Next]_vars

\* ------------------------------------------ concurrent searches, one account
\* The server runs NumWorkers requests at once; each holds its own copy of the
\* user row (its ORM session) and there is no lock on the counter.
ConcSignup == \E e \in Clients : signup(e)
ConcSearchBegin == \E p \in Procs, e \in Clients, q \in Queries, i \in Isbns :
                        search_begin(p, e, q, i)
ConcSearchFinish == \E p \in Procs : search_finish(p)

\* The clock moves within the calendar day.
ConcTick == Tick /\ date(now') = date(now)

NextConc == ConcTick \/ ConcSignup \/ ConcSearchBegin \/ ConcSearchFinish

SpecConc == Init /\ [][NextConc]_vars

\* --------------------------------------------- billing over a seeded store
\* The webhook and the payment redirect over a store of up to two accounts.
\* Each seeded row is one an account can hold at time 0: signed up, searched
\* 0, 3 or 5 times, then possibly subscribed and possibly cancelled.
SeedRows ==
    {r \in [is_premium : BOOLEAN, premium_expires : {<<>>, <<PremiumDays * TicksPerDay>>},
            searches_today : {0, 3, FreeLimit}, last_search_reset : {0}] :
        r.is_premium => r.premium_expires # <<>>}

InitBilling ==
    /\ now = 0
    /\ \E D \in SUBSET Emails : users \in [D -> SeedRows]
    /\ req = [p \in Procs |-> IdleReq]
    /\ resp = Response("none", 0, 0, NoCount)
    /\ charged = [e \in Emails |-> 0]
    /\ overlap = [e \in Emails |-> FALSE]
    /\ AggIdle

BillingSignup == \E e \in Emails : signup(e)
BillingPayment == \E e \in Emails : payment_success(e)
BillingWebhook == \E s \in BOOLEAN, ok \in BOOLEAN, t \in EventTypes, e \in EventEmails :
                        stripe_webhook(s, ok, t, e)

NextBilling == BillingSignup \/ BillingPayment \/ BillingWebhook

SpecBilling == InitBilling /\ [][NextBilling]_vars

\* ------------------------------------------------------ the aggregator alone
InitAgg ==
    /\ AppInit
    /\ ebay_results \in EbayResults
    /\ results = <<>>
    /\ savings = 0
    /\ agg_pc = "start"

\* finder.search_all(query, isbn), given what the eBay client returns
AggSearchAll ==
    /\ agg_pc = "start"
    /\ \E q \in Queries, i \in Isbns :
          /\ ~(Strip(q) = "" /\ Strip(i) = "")
          /\ results' = search_all(ebay_results, Strip(q), Strip(i))
    /\ agg_pc' = "searched"
    /\ UNCHANGED <<ebay_results, savings>>
    /\ UNCHANGED appVars

\* the handler's savings figure for that result list
AggSavings ==
    /\ agg_pc = "searched"
    /\ savings' = calc_savings(results)
    /\ agg_pc' = "computed"
    /\ UNCHANGED <<ebay_results, results>>
    /\ UNCHANGED appVars

NextAgg == AggSearchAll \/ AggSavings

SpecAgg == InitAgg /\ [][NextAgg]_vars


\* ==================================================================== claims
\* The premium-and-not-expired condition, written out on a row.
IsActive(u, t) == u.is_premium /\ u.premium_expires # <<>> /\ u.premium_expires[1] > t

\* A step in which a search request of account e runs its quota check.
QuotaCheckStep(e) ==
    /\ req[1].pc = "idle"
    /\ req'[1].pc = "aggregating" \/ resp'.handler = "search"
    /\ \E q \in Queries, i \in Isbns : search_begin(1, e, q, i)

\* The search request of this step is answered 403.
Denied == req'[1].pc = "idle" /\ resp'.handler = "search" /\ resp'.status = 403

\* C1: a quota check lets an active premium account through whatever its
\* counter; any other account gets through exactly when its counter, taken
\* after the reset the same call may have done, is below 5.
C1_CanSearchDecision ==
    [][\A e \in Clients :
          QuotaCheckStep(e) =>
             IF IsActive(users[e], now)
             THEN ~Denied
             ELSE (~Denied <=> users'[e].searches_today < FreeLimit)]_vars

\* C1 witness: an active premium account whose counter is at the limit or over
\* passed the quota check and its search is running.
C1_PremiumPassesAtLimit ==
    \E e \in Registered :
        /\ req[1].pc = "aggregating" /\ req[1].user = e
        /\ users[e].searches_today >= FreeLimit
        /\ IsActive(users[e], now)

\* C2: a quota check on a calendar day later than last_search_reset's sets
\* the counter to 0 and last_search_reset to now, for premium and free
\* accounts alike; a check on the day of last_search_reset changes neither;
\* last_search_reset is never in the future, so the day's later checks are
\* of the second kind.
C2_DailyReset ==
    /\ [][\A e \in Clients :
            QuotaCheckStep(e) =>
               IF date(users[e].last_search_reset) < date(now)
               THEN /\ users'[e].searches_today = 0
                    /\ users'[e].last_search_reset = now
               ELSE /\ date(users[e].last_search_reset) = date(now)
                    /\ users'[e].searches_today = users[e].searches_today
                    /\ users'[e].last_search_reset = users[e].last_search_reset]_vars
    /\ [](\A e \in Registered : users[e].last_search_reset <= now)

\* C2 witness: an account with the premium flag set has just been reset by the
\* first quota check of a later day.
C2_PremiumResetOnNewDay ==
    \E e \in Registered :
        /\ req[1].pc = "aggregating" /\ req[1].user = e
        /\ users[e].is_premium
        /\ date(now) > 0
        /\ users[e].last_search_reset = now
        /\ users[e].searches_today = 0

\* C3: the increment at the end of a search adds exactly 1 to the counter of
\* an account that is not active premium at that time and leaves the counter
\* of an active premium account alone; no other field changes.
C3_IncrementEffect ==
    [][search_finish(1) =>
          LET e == req[1].user
          IN /\ users'[e].searches_today =
                    IF IsActive(users[e], now) THEN users[e].searches_today
                    ELSE users[e].searches_today + 1
             /\ users'[e].is_premium = users[e].is_premium
             /\ users'[e].premium_expires = users[e].premium_expires
             /\ users'[e].last_search_reset = users[e].last_search_reset
             /\ DOMAIN users' = DOMAIN users]_vars

\* C3 witness: a search of an active premium account was answered and its
\* counter, charged before the subscription, is still what it was.
C3_PremiumSearchDone ==
    \E e \in Registered :
        /\ Quiet
        /\ resp.handler = "search" /\ resp.status = 200
        /\ IsActive(users[e], now)
        /\ users[e].searches_today > 0

\* C4: a search request answered 403 or 400 changes no field of any account.
C4_ErrorsMutateNothing ==
    [][\A e \in Clients :
          (QuotaCheckStep(e) /\ req'[1].pc = "idle" /\ resp'.status \in {400, 403})
             => users' = users]_vars

\* C5: a successful search reports "unlimited" exactly for an active premium
\* account, and max(0, 5 - searches_today) after the increment otherwise.
C5_RemainingQuota ==
    [][search_finish(1) =>
          LET e == req[1].user
          IN resp'.remaining =
                IF IsActive(users'[e], now) THEN Unlimited
                ELSE Count(Max0(FreeLimit - users'[e].searches_today))]_vars

\* C6: the webhook changes the store only for a verified, well-formed
\* subscription-cancelled event whose email has an account: then that
\* account's is_premium becomes false, nothing else changes and the answer is
\* 200.  A bad signature or payload is answered 400, any other event type 200,
\* both with the store as it was.
C6_WebhookEffect ==
    [][\A s \in BOOLEAN, ok \in BOOLEAN, t \in EventTypes, m \in EventEmails :
          stripe_webhook(s, ok, t, m) =>
             /\ (users' # users => s /\ ok /\ t = Deleted /\ m \in Registered)
             /\ (s /\ ok /\ t = Deleted /\ m \in Registered =>
                    /\ DOMAIN users' = DOMAIN users
                    /\ \A x \in Registered \ {m} : users'[x] = users[x]
                    /\ users'[m].is_premium = FALSE
                    /\ users'[m].premium_expires = users[m].premium_expires
                    /\ users'[m].searches_today = users[m].searches_today
                    /\ users'[m].last_search_reset = users[m].last_search_reset
                    /\ resp'.status = 200)
             /\ (~s \/ ~ok => resp'.status = 400 /\ users' = users)
             /\ (s /\ ok /\ t # Deleted => resp'.status = 200 /\ users' = users)]_vars

\* C6 witness: the webhook answered 200, one account is cancelled with its
\* expiry and a non-zero counter kept, and the other account is still premium.
C6_CancelledOneAccount ==
    /\ resp.handler = "webhook" /\ resp.status = 200
    /\ \E a \in Registered, b \in Registered :
          /\ a # b
          /\ ~users[a].is_premium /\ users[a].premium_expires # <<>>
          /\ users[a].searches_today > 0
          /\ users[b].is_premium

\* C7: search_all returns the priced offers in non-decreasing order of price,
\* equal prices in input order, then the search-link offers; every priced and
\* every flagged offer of the input is in the output, once.
C7_AggregatorOrder ==
    agg_pc # "start" =>
       LET n == Len(results)
           k == Cardinality({j \in 1..n : results[j].price > 0})
       IN /\ \A j \in 1..n : (j <= k) <=> (results[j].price > 0)
          /\ \A j \in 1..n : j > k => results[j].is_search_link
          /\ \A j \in 1..n : j <= k => ~results[j].is_search_link
          /\ \A a, b \in 1..k : a < b =>
                \/ results[a].price < results[b].price
                \/ /\ results[a].price = results[b].price
                   /\ results[a].item < results[b].item
          /\ \A j \in 1..Len(ebay_results) :
                ebay_results[j].price > 0 =>
                   Cardinality({x \in 1..n : results[x] = ebay_results[j]}) = 1
          /\ Cardinality({x \in 1..n : results[x].source = "Amazon"}) = 1
          /\ n = Cardinality({j \in 1..Len(ebay_results) : ebay_results[j].price > 0}) + 1

\* C7 witness: a result list whose input was out of order and held two offers
\* of one price and an offer without a price.
C7_UnsortedInputSorted ==
    /\ agg_pc = "searched"
    /\ \E a, b \in 1..Len(ebay_results) :
          a < b /\ ebay_results[a].price > ebay_results[b].price /\ ebay_results[b].price > 0
    /\ \E a, b \in 1..Len(ebay_results) :
          a < b /\ ebay_results[a].price = ebay_results[b].price /\ ebay_results[b].price > 0
    /\ Len(results) >= 4

PricedPrices == {results[j].price : j \in {x \in 1..Len(results) : results[x].price > 0}}

\* C8: the savings figure is max - min over the priced offers of the result
\* list, and 0 when there is none.
C8_Savings ==
    agg_pc = "computed" =>
       IF PricedPrices = {} THEN savings = 0
       ELSE \E lo \in PricedPrices, hi \in PricedPrices :
               /\ \A x \in PricedPrices : lo <= x /\ x <= hi
               /\ savings = hi - lo

\* C8 witness: savings computed for exactly one priced offer (0), the list
\* being that offer and the search link.
C8_SinglePricedOffer ==
    /\ agg_pc = "computed"
    /\ Len(results) = 2
    /\ Cardinality(PricedPrices) = 1
    /\ savings = 0

\* C9 as stated: with requests handled one at a time, searches_today of every
\* account stays in 0..5.
C9_CounterWithinLimit ==
    \A e \in Registered : users[e].searches_today \in 0..FreeLimit

\* C9 amended: with requests handled one at a time, searches_today of every
\* account stays in 0..6, and it is 6 only while last_search_reset is on an
\* earlier day than now, so that the next quota check resets it.
C9_CounterWithinLimitPlusOne ==
    \A e \in Registered :
        /\ users[e].searches_today \in 0..(FreeLimit + 1)
        /\ users[e].searches_today > FreeLimit =>
              date(users[e].last_search_reset) < date(now)

\* C9 witness: a search checked as premium was charged after the subscription
\* expired, on top of a full counter.
C9_ChargedAfterExpiry ==
    \E e \in Registered :
        /\ users[e].searches_today = FreeLimit + 1
        /\ users[e].is_premium
        /\ users[e].premium_expires[1] <= now

\* C10: interleaved searches of one account that is not active premium reach
\* an execution with more than 5 searches charged since the last reset, or
\* with searches_today different from the number charged (the witness below);
\* that happens only when requests of the account overlapped.
C10_AnomalyOnlyByOverlap ==
    \A e \in Registered :
        (\/ charged[e] > FreeLimit
         \/ InFlight(e) = {} /\ users[e].searches_today # charged[e])
           => overlap[e]

\* C10 witness: every request of the account is answered, more than 5 searches
\* were charged since the last reset and searches_today is not that number.
C10_RaceReached ==
    \E e \in Registered :
        /\ InFlight(e) = {}
        /\ ~users[e].is_premium
        /\ charged[e] > FreeLimit
        /\ users[e].searches_today # charged[e]

====
